---- MODULE Spec2Model ----
(***************************************************************************)
(* SynchronizedTimeTracker of quodlibet/ext/events/seekbar.py: a GObject   *)
(* that arms GLib timeouts so that a "tick" signal is emitted once per     *)
(* second of playback position, driven by the player's "paused",           *)
(* "unpaused", "seek" and "song-started" signals.                          *)
(*                                                                         *)
(* Every handler runs to completion on the GLib main loop, so one handler  *)
(* execution is one step.  Handlers are written as functions from a record *)
(* of the tracker's fields and the main context's sources to the record    *)
(* after the handler, so that restart() is the composition the code writes.*)
(***************************************************************************)
EXTENDS Integers, FiniteSets

\* ------------------------------------------------------------- bounds

\* Playback seconds the player's position ranges over: 0 .. MaxSec.
MaxSec == 6

\* Steady playback: start positions 0 .. MaxStart, followed up to MaxSteadyPos.
MaxStart == 1999

MaxSteadyPos == 12000

\* Recovery: the one disruption happens at a position of at most MaxDisruptPos.
MaxDisruptPos == 3500

\* SeekBar: mouse buttons that can be held down on the scale at once.
MaxButtons == 2

\* SeekBar: block counts followed.
MaxBlocks == 3

\* SeekBar: playback is followed up to this position.
MaxBarPos == 3010

\* SeekBar: the values the user moves the slider to, in 0.001 s.
ScaleTargets == {1000, 2000}

\* Recovery: where the player is when the tracker is constructed.
RecStarts == {0, 10, 500, 990}

\* Recovery: positions the player is asked to seek to, at every phase.
RecSeekTargets == {s * 1000 + f : s \in {0, 2}, f \in 0..999}

\* Positions within a second that the player is observed at.  10 is the
\* tracker's own target (offset), 30 and 31 sit on both sides of
\* offset + max_delta, 990 is just before a boundary.
Phases == {0, 5, 10, 30, 31, 50, 990}

Positions == {s * 1000 + f : s \in 0..MaxSec, f \in Phases}

\* Positions the player is asked to seek to.
SeekPhases == {0, 31, 990}

\* Seconds the player is asked to seek into: 0 and 1, which the tracker
\* treats specially, and two later ones.
SeekSecs == {0, 1, 3, 5}

SeekTargets == {s * 1000 + f : s \in SeekSecs, f \in SeekPhases}

\* Where the player is when the tracker is constructed.  Every other position
\* is reached from it by playback or a seek.
StartPositions == {0}

\* ---------------------------------------------------------- constants

offset == 10

\* Faulty variant: twice the tolerance.
maxDeltaDoubled == 20 + 20

max_delta == 20

\* GLib.timeout_add(200, self.__scroll_timeout, value, player)
scroll_delay == 200

\* self.__source_id = None; GLib source ids are positive.
None == 0

\* The four player signals __init__ connects.
sigs == {"paused", "unpaused", "seek", "song-started"}

Abs(x) == IF x < 0 THEN -x ELSE x

\* -------------------------------------------------------------- state

VARIABLES
    paused,         \* player.paused
    position,       \* player.get_position(), ms
    source_id,      \* self.__source_id
    tick_prev_sec,  \* self.__tick_prev_sec
    handlers,       \* the signals of the player the tracker is connected to
    sources,        \* live timeout sources of the main context:
                    \*   [id, interval, data] with data the argument of __run
    \* history, not read by any handler
    lastOp,         \* what the last step was
    emitted,        \* the last step emitted "tick"
    fired,          \* the source whose callback the last step ran, or {}
    ops,            \* handler executions since construction: 0, 1, 2 (= more)
    ticked,         \* seconds ticked since the last seek / song-started
    dupTick,        \* some second was ticked twice without one in between
    seekSec,        \* second of the last seek no song-started followed, or -1
    quietRun,       \* a firing since the last seek / song-started did not tick
    destroyed,      \* destroy() has been called
    pausedEvt,      \* "paused" was emitted and no "unpaused" since
    startPos,       \* position at construction
    prevBefore,     \* __tick_prev_sec before the last step
    added,          \* GLib.timeout_add calls of the last step's handler
    removed,        \* GLib.source_remove calls of the last step's handler
    failed,         \* the last step's handler raised
    destroys,       \* calls of destroy(): 0, 1, 2 (= more)
    \* exact time, used by the recovery specification only
    elapsed,        \* ms since the live source was armed or last dispatched
    disrupted,      \* the one disruption that happened, or "none"
    dueSec,         \* first second boundary crossed after the disruption
    \* SeekBar
    pressed_lmb,              \* self.__pressed_lmb
    scroll_source_id,         \* SeekBar's self.__source_id
    scroll_sources,           \* live sources of __scroll_timeout:
                              \*   [id, interval, data] with data the value
    value_changed_blocks,     \* block count of __id_value_changed
    change_value_blocks,      \* block count of __id_change_value
    button_press_blocks,      \* block count of __id_button_press_event
    \* The scale has three digits (set_digits(3)): its values are kept as
    \* integers of 0.001 s, so value * 1000 is that integer taken as ms.
    pressed_lmb_scale_value,  \* self.__pressed_lmb_scale_value, or -1: unset
    scale_value,              \* self.scale.get_value()
    seekable,                 \* player.seekable
    buttons_down,             \* mouse buttons held down on the scale
    \* SeekBar history
    seeks,          \* player.seek calls of the last step
    seekArg,        \* argument of the last player.seek call, or -1
    tickShown,      \* the last step's _on_tick updated labels and scale
    lastReq,        \* value of the last change-value request handled, or -1
    reqs,           \* requests handled in the current burst: 0, 1, 2 (= more)
    timeouts,       \* __scroll_timeout runs since the burst of requests began
    underflow       \* signal_handler_unblock was called on an unblocked handler

trackerVars == <<source_id, tick_prev_sec, handlers, sources>>

histVars == <<lastOp, emitted, fired, ops, ticked, dupTick, seekSec,
              quietRun, destroyed, pausedEvt, startPos, prevBefore, added,
              removed, failed, destroys>>

recVars == <<elapsed, disrupted, dueSec>>

barVars == <<pressed_lmb, scroll_source_id, scroll_sources,
             value_changed_blocks, change_value_blocks, button_press_blocks,
             pressed_lmb_scale_value, scale_value, seekable, buttons_down>>

barHist == <<seeks, seekArg, tickShown, lastReq, reqs, timeouts, underflow>>

\* History of the tracker's specifications that the SeekBar's leaves alone.
trackerHist == <<fired, ops, ticked, dupTick, seekSec, quietRun, pausedEvt,
                 startPos, prevBefore, added, removed, failed>>

vars == <<paused, position, trackerVars, histVars, recVars, barVars, barHist>>

\* The tracker's fields and the sources, as the record the handlers map.
\* tick: the handler emitted "tick"; adds, removes: its calls of
\* GLib.timeout_add and GLib.source_remove; error: it raised.
TS ==
    [source_id |-> source_id, tick_prev_sec |-> tick_prev_sec,
     handlers |-> handlers, sources |-> sources, tick |-> FALSE,
     adds |-> 0, removes |-> 0, error |-> FALSE]

\* ----------------------------------------------------------- handlers

\* Faulty variant: the position within the second added instead of subtracted.
IdealIntervalSignSlip(pos) == 1000 + offset + (pos % 1000)

\* Faulty variant: the offset subtracted.
IdealIntervalEarly(pos) == 1000 - offset - (pos % 1000)

\* Faulty variant: the offset left out.
IdealIntervalNoOffset(pos) == 1000 - (pos % 1000)

\* interval = 1000 + self.offset - (position % 1000)
IdealInterval(pos) == 1000 + offset - (pos % 1000)

\* The id GLib.timeout_add returns.  GLib numbers the sources of a context
\* upwards, so the id names no live source, and the tracker only ever compares
\* ids for equality: the model takes the least id that names no live source,
\* is not the one dispatching (busy) and is not held in __source_id.
NewId(st, busy) ==
    CHOOSE i \in 1..(Cardinality(st.sources) + 3) :
        /\ i \notin {s.id : s \in st.sources} \cup busy \cup {st.source_id}
        /\ \A j \in 1..(i - 1) :
               j \in {s.id : s \in st.sources} \cup busy \cup {st.source_id}

\* GLib.timeout_add(interval, self.__run, data) returning id.
timeout_add(st, id, interval, data) ==
    [st EXCEPT !.sources = @ \cup {[id |-> id, interval |-> interval,
                                    data |-> data]},
               !.adds = @ + 1]

\* GLib.source_remove(id); a TypeError when id is None.
source_remove(st, id) ==
    [st EXCEPT !.sources = {s \in @ : s.id # id},
               !.removes = @ + 1,
               !.error = @ \/ id = None]

\* GLib destroys the source whose callback returned None.
source_lapse(st, id) ==
    [st EXCEPT !.sources = {s \in @ : s.id # id}]

\* Faulty variant: __enable without its "is None" test.
enableAlways(st, pos) ==
    LET interval == IdealInterval(pos)
        id == NewId(st, {})
    IN  [timeout_add(st, id, interval, interval) EXCEPT !.source_id = id]

\* __enable
enable(st, pos) ==
    IF st.source_id = None
    THEN LET interval == IdealInterval(pos)
             id == NewId(st, {})
         IN  [timeout_add(st, id, interval, interval) EXCEPT !.source_id = id]
    ELSE st

\* Faulty variant: __disable forgetting GLib.source_remove.
disableKeepSource(st) ==
    IF st.source_id # None THEN [st EXCEPT !.source_id = None] ELSE st

\* Faulty variant: __disable without its "is not None" test.
disableNoTest(st) ==
    [source_remove(st, st.source_id) EXCEPT !.source_id = None]

\* __disable
disable(st) ==
    IF st.source_id # None
    THEN [source_remove(st, st.source_id) EXCEPT !.source_id = None]
    ELSE st

\* restart
restart(st, pos) == enable(disable(st), pos)

\* Faulty variant: __song_started resetting whatever the second.
song_startedAlwaysReset(st) == [st EXCEPT !.tick_prev_sec = 0]

\* Faulty variant: __song_started resetting nothing.
song_startedNoReset(st) == st

\* __song_started
song_started(st) ==
    IF st.tick_prev_sec = 1 THEN [st EXCEPT !.tick_prev_sec = 0] ELSE st

\* Faulty variant: __seek leaving __tick_prev_sec alone.
seekKeepPrev(st, isPaused, pos, to) ==
    IF ~isPaused THEN restart(st, pos) ELSE st

\* Faulty variant: __seek calling __enable for restart.
seekNoRestart(st, isPaused, pos, to) ==
    LET s1 == [st EXCEPT !.tick_prev_sec = to \div 1000]
    IN  IF ~isPaused THEN enable(s1, pos) ELSE s1

\* __seek(player, song, seek): pos is what get_position() returns in restart.
seek(st, isPaused, pos, to) ==
    LET s1 == [st EXCEPT !.tick_prev_sec = to \div 1000]
    IN  IF ~isPaused THEN restart(s1, pos) ELSE s1

\* Faulty variant: second 0 ticked like any other.
ShouldTickInSecondZero(prev_sec, current_sec) == current_sec # prev_sec

\* Faulty variant: no comparison with the second ticked last.
ShouldTickNoDedupe(prev_sec, current_sec) == current_sec # 0

\* The tick decision of __run.
ShouldTick(prev_sec, current_sec) ==
    current_sec # prev_sec /\ current_sec # 0

\* Faulty variant: >= for >.
ShouldRearmAtDelta(last_interval, interval) ==
    Abs(last_interval - interval) >= max_delta

\* The re-arm decision of __run.
ShouldRearm(last_interval, interval) ==
    Abs(last_interval - interval) > max_delta

\* __run(last_interval), called by the source src at position pos.  Returning
\* None lets GLib destroy src; returning True keeps it with its interval.
run(st, src, pos) ==
    LET current_sec == pos \div 1000
        s1 == IF ShouldTick(st.tick_prev_sec, current_sec)
              THEN [st EXCEPT !.tick = TRUE, !.tick_prev_sec = current_sec]
              ELSE st
        interval == IdealInterval(pos)
        id == NewId(s1, {src.id})
    IN  IF ShouldRearm(src.data, interval)
        THEN source_lapse(
                 [timeout_add(s1, id, interval, interval)
                     EXCEPT !.source_id = id],
                 src.id)
        ELSE s1

\* Faulty variant: destroy leaving the handlers connected.
destroyKeepSignals(st) == disable(st)

\* destroy
destroy(st) ==
    [disable(st) EXCEPT !.handlers = @ \ sigs]

\* The fields __init__ sets before it looks at player.paused.
NewTracker ==
    [source_id |-> None, tick_prev_sec |-> 0, handlers |-> sigs,
     sources |-> {}, tick |-> FALSE, adds |-> 0, removes |-> 0,
     error |-> FALSE]

\* Faulty variant: __init__ never arming.
initNoEnable(isPaused, pos) == NewTracker

\* __init__ with the player at pos, paused or not.
init(isPaused, pos) ==
    IF ~isPaused THEN enable(NewTracker, pos) ELSE NewTracker

\* ------------------------------------------------------------ actions

\* The tracker's fields after a handler, and what the step was.
Apply(st, op) ==
    /\ source_id' = st.source_id
    /\ tick_prev_sec' = st.tick_prev_sec
    /\ handlers' = st.handlers
    /\ sources' = st.sources
    /\ emitted' = st.tick
    /\ lastOp' = op
    /\ ops' = IF ops < 2 THEN ops + 1 ELSE ops
    /\ prevBefore' = tick_prev_sec
    /\ added' = st.adds
    /\ removed' = st.removes
    /\ failed' = st.error

\* What a step that runs no handler of the tracker leaves in the history.
NoHandler ==
    /\ emitted' = FALSE
    /\ prevBefore' = tick_prev_sec
    /\ added' = 0
    /\ removed' = 0
    /\ failed' = FALSE

\* A player signal no handler of the tracker is connected to.
Ignored ==
    /\ UNCHANGED trackerVars
    /\ NoHandler
    /\ lastOp' = "ignored"
    /\ ops' = ops

\* SeekBar.__init__: the fields and the handler blocked at construction.
InitBar ==
    /\ pressed_lmb = FALSE
    /\ scroll_source_id = None
    /\ scroll_sources = {}
    /\ value_changed_blocks = 1
    /\ change_value_blocks = 0
    /\ button_press_blocks = 0
    /\ pressed_lmb_scale_value = -1
    /\ scale_value = position
    /\ seekable = TRUE
    /\ buttons_down = 0
    /\ seeks = 0
    /\ seekArg = -1
    /\ tickShown = FALSE
    /\ lastReq = -1
    /\ reqs = 0
    /\ timeouts = 0
    /\ underflow = FALSE

InitWith(P) ==
    /\ paused \in BOOLEAN
    /\ position \in P
    /\ LET st == init(paused, position)
       IN  /\ source_id = st.source_id
           /\ tick_prev_sec = st.tick_prev_sec
           /\ handlers = st.handlers
           /\ sources = st.sources
    /\ lastOp = "init"
    /\ emitted = FALSE
    /\ fired = {}
    /\ ops = 0
    /\ ticked = {}
    /\ dupTick = FALSE
    /\ seekSec = -1
    /\ quietRun = FALSE
    /\ destroyed = FALSE
    /\ pausedEvt = FALSE
    /\ startPos = position
    /\ prevBefore = 0
    /\ added = init(paused, position).adds
    /\ removed = 0
    /\ failed = FALSE
    /\ destroys = 0
    /\ elapsed = 0
    /\ disrupted = "none"
    /\ dueSec = -1
    /\ InitBar

Init == InitWith(StartPositions)

\* The player (quodlibet.player, not in this file): player.paused is True
\* from its "paused" signal to its "unpaused" signal.
PlayerPausedAfter(sig) == sig = "paused"

\* The player: get_position() right after seek(p) is p.
PlayerPositionAfterSeek(p) == p

\* The player: a song starts at position 0.
PlayerPositionAtSongStart == 0

\* player emits "paused"
Paused ==
    /\ paused' = PlayerPausedAfter("paused")
    /\ IF "paused" \in handlers THEN Apply(disable(TS), "paused") ELSE Ignored
    /\ fired' = {}
    /\ pausedEvt' = TRUE
    /\ UNCHANGED <<position, ticked, dupTick, seekSec, quietRun, destroyed, destroys,
                   startPos, recVars, barVars, barHist>>

\* player emits "unpaused"
Unpaused ==
    /\ paused' = PlayerPausedAfter("unpaused")
    /\ IF "unpaused" \in handlers
       THEN Apply(enable(TS, position), "unpaused")
       ELSE Ignored
    /\ fired' = {}
    /\ pausedEvt' = FALSE
    /\ UNCHANGED <<position, ticked, dupTick, seekSec, quietRun, destroyed, destroys,
                   startPos, recVars, barVars, barHist>>

\* player seeks to p and emits "seek"
Seek ==
    \E p \in SeekTargets :
        /\ position' = PlayerPositionAfterSeek(p)
        /\ IF "seek" \in handlers
           THEN Apply(seek(TS, paused, position', p), "seek")
           ELSE Ignored
        /\ fired' = {}
        /\ ticked' = {}
        /\ seekSec' = p \div 1000
        /\ quietRun' = FALSE
        /\ UNCHANGED <<paused, dupTick, destroyed, destroys, pausedEvt, startPos,
                       recVars, barVars, barHist>>

\* player starts a song at position 0 and emits "song-started"
SongStarted ==
    /\ position' = PlayerPositionAtSongStart
    /\ IF "song-started" \in handlers
       THEN Apply(song_started(TS), "song-started")
       ELSE Ignored
    /\ fired' = {}
    /\ ticked' = {}
    /\ seekSec' = -1
    /\ quietRun' = FALSE
    /\ UNCHANGED <<paused, dupTick, destroyed, destroys, pausedEvt, startPos,
                   recVars, barVars, barHist>>

\* What a firing of src at the position just read leaves in the history.
RunHistory(src, st, pos) ==
    /\ fired' = {src}
    /\ ticked' = IF st.tick THEN ticked \cup {pos \div 1000} ELSE ticked
    /\ dupTick' = (dupTick \/ (st.tick /\ (pos \div 1000) \in ticked))
    /\ quietRun' = (quietRun \/ ~st.tick)
    /\ UNCHANGED <<paused, seekSec, destroyed, destroys, pausedEvt, startPos>>

\* The main loop dispatches a live timeout source: __run(src.data).
Fire ==
    \E src \in sources :
        LET st == run(TS, src, position)
        IN  /\ Apply(st, "run")
            /\ RunHistory(src, st, position)
            /\ UNCHANGED <<position, recVars, barVars, barHist>>

\* Playback moves the position forward, by up to a second in a step: a
\* longer stretch without a handler is several steps.
Advance ==
    /\ ~paused
    /\ \E p \in Positions :
           p > position /\ p <= position + 1000 /\ position' = p
    /\ lastOp' = "advance"
    /\ NoHandler
    /\ fired' = {}
    /\ UNCHANGED <<paused, trackerVars, ops, ticked, dupTick, seekSec,
                   quietRun, destroyed, destroys, pausedEvt, startPos, recVars,
                   barVars, barHist>>

\* SeekBar._on_destroy: self._tracker.destroy()
Destroy ==
    /\ Apply(destroy(TS), "destroy")
    /\ destroyed' = TRUE
    /\ destroys' = IF destroys < 2 THEN destroys + 1 ELSE destroys
    /\ fired' = {}
    /\ UNCHANGED <<paused, position, ticked, dupTick, seekSec, quietRun,
                   pausedEvt, startPos, recVars, barVars, barHist>>

Next ==
    \/ Paused
    \/ Unpaused
    \/ Seek
    \/ SongStarted
    \/ Fire
    \/ Advance
    \/ Destroy

Spec == Init /\ [][Next]_vars

\* ---------------------------------------------------- steady playback

\* The player plays at 1x from any position, nothing else happens, and every
\* source is dispatched exactly src.interval ms after it was armed or last
\* dispatched.
InitSteady == InitWith(0..MaxStart) /\ ~paused

SteadyFire ==
    \E src \in sources :
        LET pos == position + src.interval
            st == run(TS, src, pos)
        IN  /\ pos <= MaxSteadyPos
            /\ position' = pos
            /\ Apply(st, "run")
            /\ RunHistory(src, st, pos)
            /\ UNCHANGED <<recVars, barVars, barHist>>

NextSteady == SteadyFire

SpecSteady == InitSteady /\ [][NextSteady]_vars

\* ------------------------------------------------------------ recovery

\* The player plays at 1x, every source is dispatched exactly when it is due
\* (src.interval ms after it was armed or last dispatched), and one
\* disruption happens at some millisecond dt of the pending interval: a pause
\* followed by "unpaused", a seek, or a song start that resets the position
\* while the pending source keeps running.  The run is followed until the
\* position has left the second that was due.
InitRecover == InitWith(RecStarts) /\ ~paused

RecFire ==
    \E src \in sources :
        LET pos == position + (src.interval - elapsed)
            st == run(TS, src, pos)
        IN  /\ IF disrupted = "none"
               THEN pos <= MaxDisruptPos
               ELSE position \div 1000 <= dueSec
            /\ position' = pos
            /\ elapsed' = 0
            /\ Apply(st, "run")
            /\ RunHistory(src, st, pos)
            /\ UNCHANGED <<disrupted, dueSec, barVars, barHist>>

\* player emits "paused", dt ms into the pending interval
RecPaused ==
    \E src \in sources :
        \E dt \in 0..(src.interval - elapsed - 1) :
            /\ disrupted = "none"
            /\ position + dt <= MaxDisruptPos
            /\ position' = position + dt
            /\ paused' = PlayerPausedAfter("paused")
            /\ Apply(disable(TS), "paused")
            /\ fired' = {}
            /\ pausedEvt' = TRUE
            /\ elapsed' = 0
            /\ disrupted' = "paused"
            /\ UNCHANGED <<ticked, dupTick, seekSec, quietRun, destroyed,
                           destroys, startPos, dueSec, barVars, barHist>>

\* player emits "unpaused" at the position it was paused at
RecUnpaused ==
    /\ disrupted = "paused"
    /\ paused' = PlayerPausedAfter("unpaused")
    /\ Apply(enable(TS, position), "unpaused")
    /\ fired' = {}
    /\ pausedEvt' = FALSE
    /\ elapsed' = 0
    /\ disrupted' = "unpaused"
    /\ dueSec' = position \div 1000 + 1
    /\ UNCHANGED <<position, ticked, dupTick, seekSec, quietRun, destroyed,
                   destroys, startPos, barVars, barHist>>

\* player seeks to p and emits "seek"; restart() reads the position p
\* whatever the position and the pending interval were.
RecSeek ==
    \E p \in RecSeekTargets :
        /\ disrupted = "none"
        /\ position' = PlayerPositionAfterSeek(p)
        /\ Apply(seek(TS, paused, position', p), "seek")
        /\ fired' = {}
        /\ ticked' = {}
        /\ seekSec' = p \div 1000
        /\ quietRun' = FALSE
        /\ elapsed' = 0
        /\ disrupted' = "seek"
        /\ dueSec' = p \div 1000 + 1
        /\ UNCHANGED <<paused, dupTick, destroyed, destroys, pausedEvt,
                       startPos, barVars, barHist>>

\* player starts a song dt ms into the pending interval and emits
\* "song-started"; the pending source is due src.interval - dt ms later.
RecSongStarted ==
    \E src \in sources :
        \E dt \in 0..(src.interval - elapsed - 1) :
            /\ disrupted = "none"
            /\ position + dt <= MaxDisruptPos
            /\ position' = PlayerPositionAtSongStart
            /\ Apply(song_started(TS), "song-started")
            /\ fired' = {}
            /\ ticked' = {}
            /\ seekSec' = -1
            /\ quietRun' = FALSE
            /\ elapsed' = elapsed + dt
            /\ disrupted' = "song-started"
            /\ dueSec' = PlayerPositionAtSongStart \div 1000 + 1
            /\ UNCHANGED <<paused, dupTick, destroyed, destroys, pausedEvt,
                           startPos, barVars, barHist>>

NextRecover ==
    \/ RecFire
    \/ RecPaused
    \/ RecUnpaused
    \/ RecSeek
    \/ RecSongStarted

SpecRecover == InitRecover /\ [][NextRecover]_vars

\* ------------------------------------------------------------- SeekBar

\* GObject.signal_handler_block on a handler blocked c times.
block(c) == c + 1

\* GObject.signal_handler_unblock: on a handler that is not blocked GObject
\* logs a warning and leaves the count at 0.
unblock(c) == IF c > 0 THEN c - 1 ELSE 0

\* The SeekBar's __source_id and the sources of __scroll_timeout, as the
\* record GLib's calls map.
SS ==
    [source_id |-> scroll_source_id, sources |-> scroll_sources,
     adds |-> 0, removes |-> 0, error |-> FALSE]

\* Faulty variant: the pending scroll timeout left in place.
scale_value_change_requestKeepOld(st, value) ==
    LET id == NewId(st, {})
    IN  [timeout_add(st, id, scroll_delay, value) EXCEPT !.source_id = id]

\* _on_scale_value_change_request, the part on __source_id
scale_value_change_request(st, value) ==
    LET s1 == IF st.source_id # None
              THEN source_remove(st, st.source_id)
              ELSE st
        id == NewId(s1, {})
    IN  [timeout_add(s1, id, scroll_delay, value) EXCEPT !.source_id = id]

\* _update_scale: the value the scale has after it, from sval, for ms.
update_scale(sval, ms) == IF Abs(ms - sval) > 1 THEN ms ELSE sval

\* The tracker's fields after a handler.
SetTracker(st) ==
    /\ source_id' = st.source_id
    /\ tick_prev_sec' = st.tick_prev_sec
    /\ handlers' = st.handlers
    /\ sources' = st.sources

\* player.seek(ms) called by the SeekBar: the player emits "seek", which runs
\* the tracker's __seek if connected and SeekBar._on_seek (connect_destroy:
\* connected until the SeekBar is destroyed).
PlayerSeek(ms) ==
    /\ position' = PlayerPositionAfterSeek(ms)
    /\ SetTracker(IF "seek" \in handlers
                  THEN seek(TS, paused, position', ms)
                  ELSE TS)
    /\ scale_value' = IF ~destroyed
                      THEN update_scale(scale_value, ms)
                      ELSE scale_value
    /\ seeks' = 1
    /\ seekArg' = ms

\* A step of the SeekBar that does not call player.seek.
NoSeek ==
    /\ UNCHANGED <<position, trackerVars>>
    /\ seeks' = 0
    /\ seekArg' = -1

InitSeekBar == InitWith(StartPositions) /\ ~paused

\* "button-press-event" on the scale (sensitive while the player is
\* seekable): _on_button_press unless its handler is blocked.
ButtonPress ==
    /\ ~destroyed
    /\ seekable
    /\ buttons_down < MaxButtons
    /\ buttons_down' = buttons_down + 1
    /\ IF button_press_blocks = 0
       THEN /\ button_press_blocks' = block(button_press_blocks)
            /\ pressed_lmb' = TRUE
            /\ value_changed_blocks' = unblock(value_changed_blocks)
            /\ underflow' = (underflow \/ value_changed_blocks = 0)
            /\ change_value_blocks' = block(change_value_blocks)
            /\ pressed_lmb_scale_value' = scale_value
            /\ lastOp' = "press"
       ELSE /\ UNCHANGED <<button_press_blocks, pressed_lmb,
                           value_changed_blocks, underflow,
                           change_value_blocks, pressed_lmb_scale_value>>
            /\ lastOp' = "press-blocked"
    /\ NoSeek
    /\ emitted' = FALSE
    /\ tickShown' = FALSE
    /\ UNCHANGED <<paused, destroyed, destroys, scroll_source_id,
                   scroll_sources, scale_value, seekable, lastReq, reqs,
                   timeouts, trackerHist, recVars>>

\* "button-release-event" on the scale: _on_button_release
ButtonRelease ==
    /\ ~destroyed
    /\ buttons_down > 0
    /\ value_changed_blocks < MaxBlocks
    /\ buttons_down' = buttons_down - 1
    /\ value_changed_blocks' = block(value_changed_blocks)
    /\ IF seekable /\ pressed_lmb_scale_value # scale_value
       THEN PlayerSeek(scale_value)
       ELSE NoSeek /\ UNCHANGED scale_value
    /\ change_value_blocks' = unblock(change_value_blocks)
    /\ pressed_lmb' = FALSE
    /\ button_press_blocks' = unblock(button_press_blocks)
    /\ underflow' = (underflow \/ change_value_blocks = 0
                               \/ button_press_blocks = 0)
    /\ lastOp' = "release"
    /\ emitted' = FALSE
    /\ tickShown' = FALSE
    /\ UNCHANGED <<paused, destroyed, destroys, scroll_source_id,
                   scroll_sources, pressed_lmb_scale_value, seekable,
                   lastReq, reqs, timeouts, trackerHist, recVars>>

\* "change-value" on the scale with value v (a scroll, a key, a drag):
\* _on_scale_value_change_request unless its handler is blocked; it returns
\* None, so the scale's own handler then takes the value.
ChangeValue ==
    \E v \in ScaleTargets :
        /\ ~destroyed
        /\ seekable
        /\ IF change_value_blocks = 0
           THEN LET st == scale_value_change_request(SS, v)
                IN  /\ pressed_lmb' = TRUE
                    /\ scroll_source_id' = st.source_id
                    /\ scroll_sources' = st.sources
                    /\ lastReq' = v
                    /\ reqs' = IF scroll_sources = {} THEN 1
                               ELSE IF reqs < 2 THEN reqs + 1 ELSE reqs
                    /\ timeouts' = IF scroll_sources = {} THEN 0
                                   ELSE timeouts
                    /\ lastOp' = "change-value"
           ELSE /\ UNCHANGED <<pressed_lmb, scroll_source_id,
                               scroll_sources, lastReq, reqs, timeouts>>
                /\ lastOp' = "change-value-blocked"
        /\ scale_value' = v
        /\ NoSeek
        /\ emitted' = FALSE
        /\ tickShown' = FALSE
        /\ UNCHANGED <<paused, destroyed, destroys, value_changed_blocks,
                       change_value_blocks, button_press_blocks,
                       pressed_lmb_scale_value, seekable, buttons_down,
                       underflow, trackerHist, recVars>>

\* The main loop dispatches a source of __scroll_timeout(value, player); the
\* callback returns None, so GLib destroys the source.
ScrollTimeout ==
    \E src \in scroll_sources :
        /\ IF seekable
           THEN PlayerSeek(src.data)
           ELSE NoSeek /\ UNCHANGED scale_value
        /\ pressed_lmb' = FALSE
        /\ scroll_source_id' = None
        /\ scroll_sources' = scroll_sources \ {src}
        /\ timeouts' = IF timeouts < 2 THEN timeouts + 1 ELSE timeouts
        /\ lastOp' = "scroll-timeout"
        /\ emitted' = FALSE
        /\ tickShown' = FALSE
        /\ UNCHANGED <<paused, destroyed, destroys, value_changed_blocks,
                       change_value_blocks, button_press_blocks,
                       pressed_lmb_scale_value, seekable, buttons_down,
                       lastReq, reqs, underflow, trackerHist, recVars>>

\* Playback reaches the position at which a source of the tracker is due:
\* __run, and SeekBar._on_tick if it emits "tick".
BarFire ==
    \E src \in sources :
        LET pos == position + src.interval
            st == run(TS, src, pos)
            shown == st.tick /\ ~pressed_lmb
        IN  /\ pos <= MaxBarPos
            /\ position' = pos
            /\ SetTracker(st)
            /\ emitted' = st.tick
            /\ tickShown' = shown
            /\ scale_value' = IF shown
                              THEN update_scale(scale_value, pos)
                              ELSE scale_value
            /\ seeks' = 0
            /\ seekArg' = -1
            /\ lastOp' = "run"
            /\ UNCHANGED <<paused, destroyed, destroys, pressed_lmb,
                           scroll_source_id, scroll_sources,
                           value_changed_blocks, change_value_blocks,
                           button_press_blocks, pressed_lmb_scale_value,
                           seekable, buttons_down, lastReq, reqs, timeouts,
                           underflow, trackerHist, recVars>>

\* player.seekable changes and "notify::seekable" runs SeekBar._update
NotifySeekable ==
    /\ ~destroyed
    /\ seekable' = ~seekable
    /\ scale_value' = IF seekable'
                      THEN update_scale(scale_value, position)
                      ELSE 0
    /\ NoSeek
    /\ lastOp' = "notify"
    /\ emitted' = FALSE
    /\ tickShown' = FALSE
    /\ UNCHANGED <<paused, destroyed, destroys, pressed_lmb,
                   scroll_source_id, scroll_sources, value_changed_blocks,
                   change_value_blocks, button_press_blocks,
                   pressed_lmb_scale_value, buttons_down, lastReq, reqs,
                   timeouts, underflow, trackerHist, recVars>>

\* The SeekBar's "destroy": _on_destroy
BarDestroy ==
    /\ ~destroyed
    /\ SetTracker(destroy(TS))
    /\ destroyed' = TRUE
    /\ destroys' = IF destroys < 2 THEN destroys + 1 ELSE destroys
    /\ seeks' = 0
    /\ seekArg' = -1
    /\ lastOp' = "destroy"
    /\ emitted' = FALSE
    /\ tickShown' = FALSE
    /\ UNCHANGED <<paused, position, barVars, lastReq, reqs, timeouts,
                   underflow, trackerHist, recVars>>

NextBar ==
    \/ ButtonPress
    \/ ButtonRelease
    \/ ChangeValue
    \/ ScrollTimeout
    \/ BarFire
    \/ NotifySeekable
    \/ BarDestroy

SpecBar == InitSeekBar /\ [][NextBar]_vars

\* --------------------------------------------------------- properties

\* C1: between two seek / song-started events the position reads of __run are
\* non-decreasing, and over such a stretch no second of the position is ticked
\* twice: "tick" is emitted at most once per value of position \div 1000.
C1_NoDuplicateTick == ~dupTick

\* A firing in a second that was already ticked, after at least two ticks.
C1_Witness ==
    /\ lastOp = "run"
    /\ ~emitted
    /\ (position \div 1000) \in ticked
    /\ Cardinality(ticked) >= 2

\* C2: from a "paused" event until the next "unpaused" event no step emits
\* "tick" and no wake-up is pending that could, whatever seek and song-started
\* events arrive in between.
C2_PausedNoTick == pausedEvt => (~emitted /\ sources = {})

\* A seek to 3990 delivered to the tracker while it is paused by a "paused"
\* event that came after other handlers.
C2_Witness ==
    /\ pausedEvt
    /\ lastOp = "seek"
    /\ ops = 2
    /\ tick_prev_sec = 3
    /\ position = 3990

\* C3: once destroy() has been called the tracker has no pending wake-up, is
\* connected to none of the four player signals, and no step emits "tick",
\* while the player goes on emitting signals and the main loop goes on.
C3_DestroyedSilent ==
    destroyed =>
        /\ source_id = None
        /\ sources = {}
        /\ handlers \cap sigs = {}
        /\ ~emitted

\* After destroy() of a tracker that had ticked, the player was unpaused again.
C3_Witness ==
    /\ destroyed
    /\ lastOp = "ignored"
    /\ ~paused
    /\ ~pausedEvt
    /\ ticked # {}

\* C4: between handlers the tracker holds a pending wake-up (__source_id is
\* not None) exactly when it has not been destroyed and the player is not
\* paused.
C4_ArmedIffPlaying ==
    (source_id # None) <=> (~destroyed /\ ~paused)

\* Armed again by a seek while playing, after an earlier handler.
C4_Witness ==
    /\ lastOp = "seek"
    /\ ops = 2
    /\ ~paused
    /\ source_id # None

\* C5: between handlers at most one timeout source of the tracker is live, and
\* a live one is the one __source_id names.
C5_OneLiveSource ==
    /\ Cardinality(sources) <= 1
    /\ \A s \in sources : s.id = source_id

\* A drift-correcting firing: the source that fired is gone, another is live.
C5_Witness ==
    /\ lastOp = "run"
    /\ sources # {}
    /\ fired \cap sources = {}
    /\ \A f \in fired : f.id # source_id

\* C6: under steady playback (SpecSteady) every second s >= 1 that begins
\* after the tracker was armed and that the position has reached is ticked,
\* and none is ticked twice.  A tick is emitted by the firing that reads a
\* position within the second it is recorded for.
C6_OneTickPerSecond ==
    /\ ~dupTick
    /\ \A s \in 1..(MaxSteadyPos \div 1000) :
           (s * 1000 > startPos /\ s * 1000 <= position) => s \in ticked

\* Four consecutive seconds ticked, then a second firing within the last of
\* them that emits nothing.
C6_Witness ==
    /\ lastOp = "run"
    /\ ~emitted
    /\ startPos < 1000
    /\ position \div 1000 = 4
    /\ ticked = 1..4

\* C7: under steady playback every tick is emitted with the position at most
\* 30 ms (offset + max_delta) past a full second.
C7_TickWithin30ms == emitted => (position % 1000) <= 30

\* A tick exactly 30 ms past the second.
C7_Witness ==
    /\ emitted
    /\ position % 1000 = 30
    /\ position > 2000

\* C8: a seek to p leaves floor(p / 1000) as the second ticked last; from then
\* on a firing that reads a position in the seek's second emits no tick, and
\* once a firing has read a position in another second that is not 0, a tick
\* has been emitted for that second.
C8_SeekBaseline ==
    /\ lastOp = "seek" => tick_prev_sec = seekSec
    /\ (fired # {} /\ seekSec # -1) =>
           LET sec == position \div 1000
           IN  /\ sec = seekSec => ~emitted
               /\ sec \notin {0, seekSec} => sec \in ticked

\* seek(5000), a firing in second 5 that did not tick, then the firing at
\* 6050 that does.
C8_Witness ==
    /\ fired # {}
    /\ seekSec = 5
    /\ quietRun
    /\ position = 6050
    /\ emitted
    /\ ticked = {6}

\* C9: a firing with scheduled interval d at a position whose ideal interval
\* is i = 1000 + 10 - (position mod 1000) does exactly one of two things: if
\* |d - i| <= 20 the firing source stays live, unchanged, and nothing else is
\* armed; if |d - i| > 20 the firing source is gone and the one live source is
\* a new one with interval and argument i, named by __source_id.
C9_RepeatOrRearm ==
    \A f \in fired :
        LET ideal == 1000 + 10 - (position % 1000)
        IN  IF Abs(f.data - ideal) <= 20
            THEN sources = {f} /\ source_id = f.id
            ELSE /\ source_id \notin {None, f.id}
                 /\ sources = {[id |-> source_id, interval |-> ideal,
                                data |-> ideal]}

\* A firing 21 ms off its ideal interval re-armed.
C9_Witness ==
    \E f \in fired :
        /\ Abs(f.data - (1000 + 10 - (position % 1000))) = 21
        /\ f \notin sources
        /\ sources # {}

\* C10, as claimed: constructed at position 0 with the player playing, the
\* tracker arms a wake-up of 1010 ms; its firing at position 1005 emits a
\* tick, sets the second ticked last to 1, and the next wake-up has interval
\* 1005 ms.
C10_Original ==
    /\ (lastOp = "init" /\ ~paused /\ position = 0) =>
           sources = {[id |-> 1, interval |-> 1010, data |-> 1010]}
    /\ (ops = 1 /\ lastOp = "run" /\ startPos = 0 /\ position = 1005) =>
           /\ emitted
           /\ tick_prev_sec = 1
           /\ sources # {}
           /\ \A s \in sources : s.interval = 1005

\* C10, amended: ... and the ideal interval 1005 ms is within 20 ms of the
\* scheduled 1010 ms, so nothing is armed: the next wake-up is the same source
\* repeating with its interval of 1010 ms.
C10_Amended ==
    /\ (lastOp = "init" /\ ~paused /\ position = 0) =>
           /\ source_id = 1
           /\ sources = {[id |-> 1, interval |-> 1010, data |-> 1010]}
    /\ (ops = 1 /\ lastOp = "run" /\ startPos = 0 /\ position = 1005) =>
           /\ emitted
           /\ tick_prev_sec = 1
           /\ IdealInterval(position) = 1005
           /\ source_id = 1
           /\ sources = {[id |-> 1, interval |-> 1010, data |-> 1010]}

\* The first handler after construction at 0 is the firing at 1005.
C10_Witness ==
    /\ ops = 1
    /\ lastOp = "run"
    /\ startPos = 0
    /\ position = 1005
    /\ fired = {[id |-> 1, interval |-> 1010, data |-> 1010]}

\* C11: a firing of __run that reads a position below 1000 ms emits no tick
\* and leaves __tick_prev_sec as it was, whatever it was; so every tick is
\* emitted at a position of at least 1000 ms.
C11_NoTickInSecondZero ==
    /\ (lastOp = "run" /\ position < 1000) =>
           (~emitted /\ tick_prev_sec = prevBefore)
    /\ emitted => position >= 1000

\* A firing in second 0 of a new track with second 3 ticked last.
C11_Witness ==
    /\ lastOp = "run"
    /\ position < 1000
    /\ prevBefore = 3
    /\ tick_prev_sec = 3
    /\ ~emitted

\* C12: __song_started sets __tick_prev_sec to 0 when it is 1 and leaves it
\* alone otherwise, calling neither GLib.timeout_add nor GLib.source_remove;
\* and once a firing has read a position in second 1 of the track, second 1
\* of that track has been ticked.
C12_SongStartedReset ==
    /\ lastOp = "song-started" =>
           /\ tick_prev_sec = (IF prevBefore = 1 THEN 0 ELSE prevBefore)
           /\ added = 0
           /\ removed = 0
    /\ (lastOp = "run" /\ seekSec = -1 /\ position \div 1000 = 1) =>
           1 \in ticked

\* "song-started" arriving with second 1 ticked last and a wake-up pending.
C12_Witness ==
    /\ lastOp = "song-started"
    /\ prevBefore = 1
    /\ tick_prev_sec = 0
    /\ source_id # None
    /\ sources # {}

\* C13: destroy() never raises and leaves no source and no connected handler;
\* on a tracker with no source armed it calls no GLib.source_remove and
\* changes neither __source_id nor __tick_prev_sec, and on a destroyed
\* tracker it changes no field at all.
C13_DestroyIdempotent ==
    [][lastOp' = "destroy" =>
          /\ ~failed'
          /\ source_id' = None
          /\ sources' = {}
          /\ handlers' = {}
          /\ source_id = None =>
                 /\ removed' = 0
                 /\ UNCHANGED <<source_id, tick_prev_sec, sources>>
          /\ destroyed => UNCHANGED trackerVars]_vars

\* The player paused since construction, destroy() called twice and no
\* other handler run.
C13_Witness ==
    /\ lastOp = "destroy"
    /\ destroys = 2
    /\ ops = 2
    /\ paused
    /\ ~pausedEvt
    /\ ~failed
    /\ handlers = {}
    /\ removed = 0

\* C14: __seek with the player not paused calls GLib.source_remove once and
\* GLib.timeout_add once, leaving exactly one source, named by __source_id,
\* with interval 1000 + 10 - (position mod 1000); with the player paused it
\* sets __tick_prev_sec and calls neither, and no source is pending.
C14_SeekRearms ==
    lastOp = "seek" =>
        /\ tick_prev_sec = position \div 1000
        /\ handlers = sigs
        /\ ~failed
        /\ IF ~paused
           THEN /\ removed = 1
                /\ added = 1
                /\ source_id # None
                /\ sources = {[id |-> source_id,
                               interval |-> 1000 + 10 - (position % 1000),
                               data |-> 1000 + 10 - (position % 1000)]}
           ELSE /\ removed = 0
                /\ added = 0
                /\ source_id = None
                /\ sources = {}

\* A seek during playback to 10 ms before a second boundary: a 20 ms wake-up.
C14_Witness ==
    /\ lastOp = "seek"
    /\ ~paused
    /\ removed = 1
    /\ added = 1
    /\ position % 1000 = 990
    /\ \E s \in sources : s.id = source_id /\ s.interval = 20

\* C15: with playback at 1x and sources dispatched exactly when due, after
\* one disruption ("unpaused", a seek, or a song start that leaves the
\* pending source running) at any millisecond of the pending interval, the
\* first second boundary the position crosses has been ticked by the time
\* the position is in a later second.
C15_RecoverWithinSecond ==
    (disrupted \in {"unpaused", "seek", "song-started"}
        /\ position \div 1000 > dueSec)
    => dueSec \in ticked

\* A song start after which a firing in second 0 did not tick, second 1 was
\* ticked, and the position has reached second 2.
C15_Witness ==
    /\ disrupted = "song-started"
    /\ dueSec = 1
    /\ position \div 1000 = 2
    /\ 1 \in ticked
    /\ quietRun

\* C20: every source has an interval in 11..1010 and that interval as the
\* argument of __run; a source armed by the last step has the interval
\* 1000 + 10 - (position mod 1000) for the position its handler read.
C20_ArmedInterval ==
    /\ \A s \in sources :
           /\ s.interval >= 11
           /\ s.interval <= 1010
           /\ s.data = s.interval
    /\ added > 0 =>
           \E s \in sources :
               /\ s.id = source_id
               /\ s.interval = 1000 + 10 - (position % 1000)

\* A drift correction at 1 ms before a second boundary: an 11 ms wake-up.
C20_Witness ==
    /\ lastOp = "run"
    /\ added = 1
    /\ position % 1000 = 999
    /\ \E s \in sources : s.id = source_id /\ s.interval = 11

\* C16: a tick updates the SeekBar's labels and scale only while no mouse
\* button is held down on the scale and no scroll timeout is pending.
C16_NoTickWhileInteracting ==
    tickShown => (buttons_down = 0 /\ scroll_sources = {})

\* C17: at most one source of __scroll_timeout is live, the one named by
\* the SeekBar's __source_id, armed with 200 ms and the last requested value;
\* __scroll_timeout runs once per burst of requests, calls player.seek once
\* with that value if the player is seekable and not at all otherwise, and
\* leaves no source of __scroll_timeout.
C17_ScrollDebounce ==
    /\ Cardinality(scroll_sources) <= 1
    /\ (scroll_source_id # None) <=> (scroll_sources # {})
    /\ \A s \in scroll_sources :
           /\ s.id = scroll_source_id
           /\ s.interval = 200
           /\ s.data = lastReq
    /\ timeouts <= 1
    /\ lastOp = "scroll-timeout" =>
           /\ scroll_sources = {}
           /\ timeouts = 1
           /\ seeks = (IF seekable THEN 1 ELSE 0)
           /\ seeks = 1 => (seekArg = lastReq /\ position = lastReq)

\* The timeout of a burst of two or more requests, the last for 2.000 s,
\* seeking to 2000 ms.
C17_Witness ==
    /\ lastOp = "scroll-timeout"
    /\ reqs = 2
    /\ timeouts = 1
    /\ seeks = 1
    /\ seekArg = 2000
    /\ lastReq = 2000
    /\ scroll_sources = {}

\* C18: once the SeekBar is destroyed no source of the tracker and no
\* source of __scroll_timeout is live, and __scroll_timeout does not run.
C18_NoTimerAfterDestroy ==
    destroyed =>
        /\ sources = {}
        /\ scroll_sources = {}
        /\ lastOp # "scroll-timeout"

\* C19: the value-changed handler is unblocked exactly while a button is
\* held down and blocked once otherwise, the change-value and
\* button-press-event handlers are blocked once exactly while a button is
\* held down, and no handler is unblocked while it is not blocked.
C19_BlocksBalanced ==
    /\ value_changed_blocks = (IF buttons_down > 0 THEN 0 ELSE 1)
    /\ change_value_blocks = (IF buttons_down > 0 THEN 1 ELSE 0)
    /\ button_press_blocks = (IF buttons_down > 0 THEN 1 ELSE 0)
    /\ ~underflow

====
